---- MODULE Spec2Model ----
(***************************************************************************)
(* Model of src/main.py: the market-sentiment reporter.                    *)
(*                                                                         *)
(* Conventions                                                             *)
(*  - A Python value that may be None is a record with an isNone field.    *)
(*  - A calendar date ("%Y-%m-%d") is the number of its day; two dates     *)
(*    are equal, or ordered, exactly as their strings are.                 *)
(*  - A timestamp is counted in ticks, TicksPerDay ticks to the day, so    *)
(*    that several timestamps can fall on one calendar day.                *)
(*  - A CNN reading is a float with one decimal, held in tenths; int()     *)
(*    truncates it.  Prices are integers and the RSI quotient is exact.    *)
(*  - A function that can raise returns a record with a raised field, so   *)
(*    that each try/except of the source is a visible branch.              *)
(***************************************************************************)
EXTENDS Integers, Sequences, FiniteSets

\* ------------------------------------------------------------ constants

LIMIT_LOW == 25
LIMIT_HIGH == 75
DANGER_DAYS_THRESHOLD == 10

\* rolling(14)
RSI_PERIOD == 14
\* iloc[-65:]
RSI_KEEP == 65
\* data[:80]
CRYPTO_KEEP == 80
\* count(30), count(60)
WINDOW_30 == 30
WINDOW_60 == 60

LABEL_CNN == "CNN"
LABEL_SP500_RSI == "S&P 500 RSI"
LABEL_COINGLASS == "CoinGlass"
LABEL_FAILED == "failed"
LABEL_CSI300_RSI == "CSI300 RSI (Yahoo)"

JIUQUAN_URL == "https://funddb.cn/tool/fear"
NoLink == "None"

\* ------------------------------------------------------------ bounds

\* ticks per calendar day in a provider's timestamps
TicksPerDay == 2
\* longest payload of an index provider (CNN, CoinGlass)
MaxRecords == 82
\* longest price frame of the price provider
MaxPrices == 80
\* longest payload, and longest run past the RSI lookback, in a whole run
MaxRunLen == 2
\* most records in a row that carry one reading
MaxHold == 3

\* ------------------------------------------------------------ helpers

Min(a, b) == IF a < b THEN a ELSE b
Max(a, b) == IF a > b THEN a ELSE b

None == [isNone |-> TRUE, items |-> << >>]
List(s) == [isNone |-> FALSE, items |-> s]

\* Python truthiness of an optional list: None and [] are both falsy
Truthy(d) == ~d.isNone /\ Len(d.items) > 0

\* A list comprehension builds its list once: the elements of f as a tuple,
\* not as a rule evaluated again at each access.
ListOf(f) == SubSeq(f, 1, Len(f))

\* s[:n]
Take(s, n) == SubSeq(s, 1, Min(n, Len(s)))
\* s[-n:]
LastN(s, n) == SubSeq(s, Max(1, Len(s) - n + 1), Len(s))
\* s[::-1]
Reverse(s) == ListOf([i \in 1..Len(s) |-> s[Len(s) + 1 - i]])

\* int() of a non-negative reading held in tenths: truncation
IntOfTenths(y) == y \div 10

\* datetime.fromtimestamp(ms / 1000).strftime("%Y-%m-%d")
DateOfTimestamp(t) == t \div TicksPerDay

\* list.sort(key=..., reverse=True) of the records s, keys[i] being the key
\* of s[i].  Python's sort is stable, also under reverse=True: records with
\* equal keys keep their order.
SortDesc(s, keys) ==
    LET n == Len(s)
        rank == ListOf([i \in 1..n |->
                    Cardinality({j \in 1..n : keys[j] > keys[i]})
                    + Cardinality({j \in 1..(i-1) : keys[j] = keys[i]}) + 1])
    IN  ListOf([p \in 1..n |-> s[CHOOSE i \in 1..n : rank[i] = p]])

\* ------------------------------------------------------------ RSI

\* delta = close.diff(): the change into row i (row 1 has none)
Delta(rows, i) == rows[i].close - rows[i-1].close

\* The sum of the gains (clip(lower=0)) of the w deltas ending at row i
RECURSIVE SumGain(_, _, _)
SumGain(rows, i, w) ==
    IF w = 0 THEN 0
    ELSE SumGain(rows, i - 1, w - 1) + Max(Delta(rows, i), 0)

\* The sum of the losses (-clip(upper=0)) of the w deltas ending at row i
RECURSIVE SumLoss(_, _, _)
SumLoss(rows, i, w) ==
    IF w = 0 THEN 0
    ELSE SumLoss(rows, i - 1, w - 1) + Max(0 - Delta(rows, i), 0)

\* delta.clip(lower=0).rolling(14).mean(), times 14
RollingGain(rows, i) == SumGain(rows, i, RSI_PERIOD)

\* -delta.clip(upper=0).rolling(14).mean(), times 14
RollingLoss(rows, i) == SumLoss(rows, i, RSI_PERIOD)

\* rs = gain / loss; rsi = 100 - (100 / (1 + rs)), for the window ending at
\* row i.  A window needs 14 deltas, so rows 1..14 give NaN.  0/0 is NaN;
\* gain/0 is inf and gives 100.  Otherwise 100 - 100/(1 + G/L) = 100*G/(G+L),
\* which int() truncates.
RsiAt(rows, i) ==
    IF i <= RSI_PERIOD
    THEN [date |-> rows[i].date, nan |-> TRUE, value |-> 0]
    ELSE LET G == RollingGain(rows, i)
             L == RollingLoss(rows, i)
         IN  IF G = 0 /\ L = 0
             THEN [date |-> rows[i].date, nan |-> TRUE, value |-> 0]
             ELSE [date |-> rows[i].date, nan |-> FALSE,
                   value |-> IF L = 0 THEN 100 ELSE (100 * G) \div (G + L)]

RsiSeries(rows) == ListOf([i \in 1..Len(rows) |-> RsiAt(rows, i)])

\* rsi.dropna()
DropNa(s) == SelectSeq(s, LAMBDA e : ~e.nan)

\* The body of the try block of calculate_rsi_history
RsiHistoryTry(resp) ==
    IF resp.kind = "error"
    THEN [raised |-> TRUE, value |-> None]
    ELSE IF Len(resp.rows) = 0
    THEN [raised |-> FALSE, value |-> None]
    ELSE LET rsi_data == Reverse(LastN(DropNa(RsiSeries(resp.rows)), RSI_KEEP))
         IN  [raised |-> FALSE,
              value |-> List(ListOf([i \in 1..Len(rsi_data) |->
                          [date |-> rsi_data[i].date, value |-> rsi_data[i].value]]))]

\* calculate_rsi_history(ticker): resp is what yf.download answers for the
\* ticker.  except Exception: return None
calculate_rsi_history(resp) ==
    LET t == RsiHistoryTry(resp)
    IN  IF t.raised THEN [raised |-> FALSE, value |-> None] ELSE t

\* ------------------------------------------------------------ resolvers

\* The body of the try block of get_us_data.  The status of the reply is
\* never looked at; a body that is not the expected JSON raises.
UsTry(cnn) ==
    IF cnn.kind = "error" \/ ~cnn.wellformed
    THEN [raised |-> TRUE, data |-> None, label |-> LABEL_CNN]
    ELSE LET data == SortDesc(cnn.data, ListOf([i \in 1..Len(cnn.data) |-> cnn.data[i].x]))
             formatted == ListOf([i \in 1..Len(data) |->
                             [date |-> DateOfTimestamp(data[i].x),
                              value |-> IntOfTenths(data[i].y)]])
         IN  [raised |-> FALSE, data |-> List(formatted), label |-> LABEL_CNN]

get_us_data(cnn, yf) ==
    LET t == UsTry(cnn)
    IN  IF ~t.raised THEN t
        ELSE LET rsi == calculate_rsi_history(yf)
             IN  [raised |-> rsi.raised, data |-> rsi.value, label |-> LABEL_SP500_RSI]

\* get_crypto_data's try block with the data[:80] cut left out
CryptoTryNoCut(cg) ==
    IF cg.kind = "error" \/ ~cg.wellformed \/ cg.code # "0"
    THEN [raised |-> TRUE, data |-> None, label |-> LABEL_COINGLASS]
    ELSE LET data == SortDesc(cg.data, ListOf([i \in 1..Len(cg.data) |-> cg.data[i].time]))
             formatted == ListOf([i \in 1..Len(data) |->
                             [date |-> DateOfTimestamp(data[i].time),
                              value |-> data[i].values]])
         IN  [raised |-> FALSE, data |-> List(formatted), label |-> LABEL_COINGLASS]

\* The body of the try block of get_crypto_data
CryptoTry(cg) ==
    IF cg.kind = "error" \/ ~cg.wellformed \/ cg.code # "0"
    THEN [raised |-> TRUE, data |-> None, label |-> LABEL_COINGLASS]
    ELSE LET data == SortDesc(cg.data, ListOf([i \in 1..Len(cg.data) |-> cg.data[i].time]))
             top == Take(data, CRYPTO_KEEP)
             formatted == ListOf([i \in 1..Len(top) |->
                             [date |-> DateOfTimestamp(top[i].time),
                              value |-> top[i].values]])
         IN  [raised |-> FALSE, data |-> List(formatted), label |-> LABEL_COINGLASS]

get_crypto_data(cg) ==
    LET t == CryptoTry(cg)
    IN  IF ~t.raised THEN t
        ELSE [raised |-> FALSE, data |-> None, label |-> LABEL_FAILED]

get_cn_data(yf) ==
    LET data == calculate_rsi_history(yf)
    IN  [raised |-> data.raised, data |-> data.value, label |-> LABEL_CSI300_RSI]

\* ------------------------------------------------------------ statistics

NoStats == [isNone |-> TRUE]

\* sum(1 for d in sub_data if d["value"] < LIMIT_LOW), over sub_data[:n]
RECURSIVE SumLow(_, _)
SumLow(sub_data, n) ==
    IF n = 0 THEN 0
    ELSE SumLow(sub_data, n - 1) + (IF sub_data[n].value < LIMIT_LOW THEN 1 ELSE 0)

\* sum(1 for d in sub_data if d["value"] > LIMIT_HIGH), over sub_data[:n]
RECURSIVE SumHigh(_, _)
SumHigh(sub_data, n) ==
    IF n = 0 THEN 0
    ELSE SumHigh(sub_data, n - 1) + (IF sub_data[n].value > LIMIT_HIGH THEN 1 ELSE 0)

\* count with a window one point too long: data[:limit_days + 1]
countOffByOne(data, limit_days) ==
    LET sub_data == Take(data, limit_days + 1)
    IN  <<SumLow(sub_data, Len(sub_data)), SumHigh(sub_data, Len(sub_data))>>

\* count(limit_days) of calc_stats
count(data, limit_days) ==
    LET sub_data == Take(data, limit_days)
    IN  <<SumLow(sub_data, Len(sub_data)), SumHigh(sub_data, Len(sub_data))>>

\* the classification with the thresholds included: <= and >=
StatusTextLoose(current_val) ==
    IF current_val <= LIMIT_LOW THEN "Panic"
    ELSE IF current_val >= LIMIT_HIGH THEN "Greed"
    ELSE "Neutral"

\* the classification of calc_stats
StatusText(current_val) ==
    IF current_val < LIMIT_LOW THEN "Panic"
    ELSE IF current_val > LIMIT_HIGH THEN "Greed"
    ELSE "Neutral"

\* calc_stats with the two windows exchanged
calc_statsSwapped(data) ==
    IF ~Truthy(data) THEN NoStats
    ELSE LET c30 == count(data.items, WINDOW_60)
             c60 == count(data.items, WINDOW_30)
         IN  [isNone |-> FALSE,
              val |-> data.items[1].value,
              date |-> data.items[1].date,
              status |-> StatusText(data.items[1].value),
              l30 |-> c30[1], h30 |-> c30[2],
              l60 |-> c60[1], h60 |-> c60[2]]

calc_stats(data) ==
    IF ~Truthy(data) THEN NoStats
    ELSE LET c30 == count(data.items, WINDOW_30)
             c60 == count(data.items, WINDOW_60)
         IN  [isNone |-> FALSE,
              val |-> data.items[1].value,
              date |-> data.items[1].date,
              status |-> StatusText(data.items[1].value),
              l30 |-> c30[1], h30 |-> c30[2],
              l60 |-> c60[1], h60 |-> c60[2]]

\* ------------------------------------------------------------ rendering

get_color(value) ==
    IF value < LIMIT_LOW THEN "#28a745"
    ELSE IF value > LIMIT_HIGH THEN "#dc3545"
    ELSE "#333333"

\* generate_card_html: the card as the fields the template fills in.  A
\* failure card carries the market's name and nothing else.
generate_card_html(name, source, st, link) ==
    IF st.isNone
    THEN [kind |-> "failure", name |-> name]
    ELSE [kind |-> "card", name |-> name, source |-> source,
          date |-> st.date, val |-> st.val, status |-> st.status,
          color |-> get_color(st.val),
          l30 |-> st.l30, h30 |-> st.h30, l60 |-> st.l60, h60 |-> st.h60,
          warning |-> st.h30 >= DANGER_DAYS_THRESHOLD,
          link |-> link]

\* send_push(title, content): what the call does, given whether
\* PUSHPLUS_TOKEN is set and whether requests.post raises.  Nothing it does
\* raises to the caller.
send_push(title, content, hasToken, postRaises) ==
    [title |-> title, content |-> content,
     outcome |-> IF ~hasToken THEN "skipped"
                 ELSE IF postRaises THEN "post failed" ELSE "posted"]

\* ------------------------------------------------------------ main

\* tasks: name as its words (name.split(' ')), getter, link
tasks ==
    << [name |-> <<"US", "stocks">>, getter |-> "get_us_data", link |-> NoLink],
       [name |-> <<"BTC", "CoinGlass">>, getter |-> "get_crypto_data", link |-> NoLink],
       [name |-> <<"CN", "A-shares">>, getter |-> "get_cn_data", link |-> JIUQUAN_URL] >>

\* f"{flag_icon}:{stats['val']}" with flag_icon = name.split(' ')[0]
Fragment(name, st) == <<name[1], st.val>>

VARIABLES
    pc,           \* where the program is: "loop", "deliver", "done", "crashed"
    task,         \* index into tasks of the next iteration of the for loop
    resp,         \* what the providers answered in the last getter call
    raw_data,     \* raw_data of the last iteration
    source_name,  \* source_name of the last iteration
    stats,        \* stats of the last iteration
    outcomes,     \* history: stats of every iteration so far
    parts,        \* title fragments
    html_cards,   \* the cards, in the order they were appended
    pushes        \* the calls of send_push so far

vars == <<pc, task, resp, raw_data, source_name, stats, outcomes, parts,
          html_cards, pushes>>

NoResp == [cnn |-> "unused", yf |-> "unused", cg |-> "unused"]

Init ==
    /\ pc = "loop"
    /\ task = 1
    /\ resp = NoResp
    /\ raw_data = None
    /\ source_name = "unset"
    /\ stats = NoStats
    /\ outcomes = << >>
    /\ parts = << >>
    /\ html_cards = << >>
    /\ pushes = << >>

\* the loop body with parts.insert(0, ...) in place of parts.append(...)
LoopBodyPrepend(r, rs) ==
    LET t == tasks[task]
        st == calc_stats(r.data)
    IN  /\ resp' = rs
        /\ IF r.raised
           THEN /\ pc' = "crashed"
                /\ UNCHANGED <<task, raw_data, source_name, stats, outcomes,
                               parts, html_cards>>
           ELSE /\ raw_data' = r.data
                /\ source_name' = r.label
                /\ stats' = st
                /\ outcomes' = Append(outcomes, st)
                /\ html_cards' = Append(html_cards,
                                   generate_card_html(t.name, r.label, st, t.link))
                /\ parts' = IF ~st.isNone
                            THEN <<Fragment(t.name, st)>> \o parts
                            ELSE parts
                /\ task' = task + 1
                /\ pc' = IF task = Len(tasks) THEN "deliver" ELSE "loop"
        /\ UNCHANGED pushes

\* One iteration of the for loop, the getter having returned r after the
\* providers answered rs.  A getter that raises ends the program.
LoopBody(r, rs) ==
    LET t == tasks[task]
        st == calc_stats(r.data)
    IN  /\ resp' = rs
        /\ IF r.raised
           THEN /\ pc' = "crashed"
                /\ UNCHANGED <<task, raw_data, source_name, stats, outcomes,
                               parts, html_cards>>
           ELSE /\ raw_data' = r.data
                /\ source_name' = r.label
                /\ stats' = st
                /\ outcomes' = Append(outcomes, st)
                /\ html_cards' = Append(html_cards,
                                   generate_card_html(t.name, r.label, st, t.link))
                /\ parts' = IF ~st.isNone
                            THEN Append(parts, Fragment(t.name, st))
                            ELSE parts
                /\ task' = task + 1
                /\ pc' = IF task = Len(tasks) THEN "deliver" ELSE "loop"
        /\ UNCHANGED pushes

\* ------------------------------------------------------------ providers

\* What an index provider can send: n records whose timestamps are step
\* ticks apart, oldest first (asc) or newest first.  The readings run
\* through the provider's palette, starting shift places into it at the
\* newest record and moving on every hold records.
Stamp(n, asc, i) == IF asc THEN i ELSE n + 1 - i
Reading(palette, n, asc, i, shift, hold) ==
    palette[((((n - Stamp(n, asc, i)) \div hold) + shift) % Len(palette)) + 1]

\* readings of CNN, in tenths: 24.9, 25.0, 75.0, 76.8
CnnReadings == <<249, 250, 750, 768>>
\* readings of CoinGlass, integers
CoinGlassReadings == <<24, 25, 75, 76>>
Shifts == 0..3
Holds == 1..MaxHold
Steps == {1, TicksPerDay}

CnnPayload(n, step, asc, shift, hold) ==
    ListOf([i \in 1..n |-> [x |-> Stamp(n, asc, i) * step,
                            y |-> Reading(CnnReadings, n, asc, i, shift, hold)]])

CoinGlassPayload(n, step, asc, shift, hold) ==
    ListOf([i \in 1..n |-> [time |-> Stamp(n, asc, i) * step,
                            values |-> Reading(CoinGlassReadings, n, asc, i, shift, hold)]])

TransportError == [kind |-> "error"]

\* requests.get(CNN_URL): a transport error, a reply that is not the
\* expected JSON, or a reply with a data list
CnnResponses(lengths, statuses, steps, orders, holds) ==
    {TransportError}
    \cup {[kind |-> "reply", status |-> st, wellformed |-> FALSE, data |-> << >>] :
             st \in statuses}
    \cup {[kind |-> "reply", status |-> st, wellformed |-> TRUE,
           data |-> CnnPayload(n, step, asc, shift, hold)] :
             st \in statuses, n \in lengths, step \in steps, asc \in orders,
             shift \in Shifts, hold \in holds}

\* requests.get(COINGLASS_URL): as above, with the code field of the body
CoinGlassResponses(lengths, statuses, steps, orders, holds) ==
    {TransportError}
    \cup {[kind |-> "reply", status |-> st, wellformed |-> FALSE, code |-> "0",
           data |-> << >>] : st \in statuses}
    \cup {[kind |-> "reply", status |-> st, wellformed |-> TRUE, code |-> "1",
           data |-> << >>] : st \in statuses}
    \cup {[kind |-> "reply", status |-> st, wellformed |-> TRUE, code |-> "0",
           data |-> CoinGlassPayload(n, step, asc, shift, hold)] :
             st \in statuses, n \in lengths, step \in steps, asc \in orders,
             shift \in Shifts, hold \in holds}

\* first close of a price frame
BasePrice == 100
\* daily moves of the close
PriceMoves == {0 - 1, 0, 2}
\* the day a frame changes its move is a multiple of TurnStep, up to
\* MaxTurns of them
TurnStep == 7
MaxTurns == 3

\* A price frame of n daily rows, oldest first: the close moves by a on each
\* of the first k days and by b afterwards.
PriceRows(n, k, a, b) ==
    ListOf([i \in 1..n |->
              [date |-> i,
               close |-> BasePrice + a * Min(i - 1, k) + b * Max(i - 1 - k, 0)]])

\* yf.download(ticker): an exception, or a frame (possibly empty)
YfResponses(lengths, turns) ==
    {TransportError}
    \cup {[kind |-> "frame", rows |-> PriceRows(n, k, a, b)] :
             n \in lengths, k \in turns, a \in PriceMoves, b \in PriceMoves}

\* ------------------------------------------------------------ a whole run

HttpStatuses == {200, 503}
RunLengths == 0..MaxRunLen
RunPriceLengths == {0} \cup (RSI_PERIOD..(RSI_PERIOD + MaxRunLen))
RunTurns == {0, RSI_PERIOD}

RunCnn == CnnResponses(RunLengths, HttpStatuses, {TicksPerDay}, {TRUE}, {1})
RunCoinGlass == CoinGlassResponses(RunLengths, HttpStatuses, {TicksPerDay}, {TRUE}, {1})
RunYf == YfResponses(RunPriceLengths, RunTurns)

Unused == "unused"

\* the iteration of the for loop that calls get_us_data; yfinance is only
\* asked when the CNN attempt raised
RunUS ==
    /\ pc = "loop"
    /\ tasks[task].getter = "get_us_data"
    /\ \E cnn \in RunCnn :
          IF UsTry(cnn).raised
          THEN \E yf \in RunYf :
                  LoopBody(get_us_data(cnn, yf), [cnn |-> cnn, yf |-> yf, cg |-> Unused])
          ELSE LoopBody(get_us_data(cnn, Unused), [cnn |-> cnn, yf |-> Unused, cg |-> Unused])

RunCrypto ==
    /\ pc = "loop"
    /\ tasks[task].getter = "get_crypto_data"
    /\ \E cg \in RunCoinGlass :
          LoopBody(get_crypto_data(cg), [cnn |-> Unused, yf |-> Unused, cg |-> cg])

RunCN ==
    /\ pc = "loop"
    /\ tasks[task].getter = "get_cn_data"
    /\ \E yf \in RunYf :
          LoopBody(get_cn_data(yf), [cnn |-> Unused, yf |-> yf, cg |-> Unused])

\* the delivery branch without its "if parts" test
DeliverAlways ==
    /\ pc = "deliver"
    /\ \E hasToken \in BOOLEAN, postRaises \in BOOLEAN :
          pushes' = Append(pushes, send_push(parts, html_cards, hasToken, postRaises))
    /\ pc' = "done"
    /\ UNCHANGED <<task, resp, raw_data, source_name, stats, outcomes, parts, html_cards>>

\* if parts: send_push(title, full_html)
Deliver ==
    /\ pc = "deliver"
    /\ Len(parts) > 0
    /\ \E hasToken \in BOOLEAN, postRaises \in BOOLEAN :
          pushes' = Append(pushes, send_push(parts, html_cards, hasToken, postRaises))
    /\ pc' = "done"
    /\ UNCHANGED <<task, resp, raw_data, source_name, stats, outcomes, parts, html_cards>>

\* else: print(...)
SkipDelivery ==
    /\ pc = "deliver"
    /\ Len(parts) = 0
    /\ pc' = "done"
    /\ UNCHANGED <<task, resp, raw_data, source_name, stats, outcomes, parts,
                   html_cards, pushes>>

Next == RunUS \/ RunCrypto \/ RunCN \/ Deliver \/ SkipDelivery

Spec == Init /\ [][Next]_vars

\* ------------------------------------------------------------ one resolver call

SeriesLengths == 0..MaxRecords
PriceLengths == 0..MaxPrices
Turns == {k * TurnStep : k \in 0..MaxTurns}

SeriesCnn(statuses) == CnnResponses(SeriesLengths, statuses, Steps, BOOLEAN, Holds)
SeriesCoinGlass(statuses) == CoinGlassResponses(SeriesLengths, statuses, Steps, BOOLEAN, Holds)
SeriesYf(lengths) == YfResponses(lengths, Turns)

\* raw_data, source_name = getter()
Resolved(t, r, rs) ==
    /\ task' = t
    /\ resp' = rs
    /\ raw_data' = r.data
    /\ source_name' = r.label
    /\ pc' = IF r.raised THEN "crashed" ELSE "resolved"
    /\ UNCHANGED <<stats, outcomes, parts, html_cards, pushes>>

ResolveUS ==
    /\ pc = "loop"
    /\ task = 1
    /\ \E cnn \in SeriesCnn({200}) :
          IF UsTry(cnn).raised
          THEN \E yf \in SeriesYf(PriceLengths) :
                  Resolved(1, get_us_data(cnn, yf), [cnn |-> cnn, yf |-> yf, cg |-> Unused])
          ELSE Resolved(1, get_us_data(cnn, Unused), [cnn |-> cnn, yf |-> Unused, cg |-> Unused])

ResolveCrypto ==
    /\ pc = "loop"
    /\ task = 1
    /\ \E cg \in SeriesCoinGlass({200}) :
          Resolved(2, get_crypto_data(cg), [cnn |-> Unused, yf |-> Unused, cg |-> cg])

ResolveCN ==
    /\ pc = "loop"
    /\ task = 1
    /\ \E yf \in SeriesYf(PriceLengths) :
          Resolved(3, get_cn_data(yf), [cnn |-> Unused, yf |-> yf, cg |-> Unused])

\* stats = calc_stats(raw_data)
Summarise ==
    /\ pc = "resolved"
    /\ stats' = calc_stats(raw_data)
    /\ pc' = "summarised"
    /\ UNCHANGED <<task, resp, raw_data, source_name, outcomes, parts, html_cards, pushes>>

SeriesNext == ResolveUS \/ ResolveCrypto \/ ResolveCN \/ Summarise

SeriesSpec == Init /\ [][SeriesNext]_vars

\* ------------------------------------------------------------ properties

\* the market of the last completed iteration of a whole run (0: none yet)
LastTask == task - 1
SourceLabels == {LABEL_CNN, LABEL_SP500_RSI, LABEL_COINGLASS, LABEL_CSI300_RSI}

\* a source attempt that the resolver must count as failed: transport error,
\* or a reply that is not the expected payload
HttpFailed(r) == r.kind = "error" \/ ~r.wellformed
CoinGlassFailed(r) == HttpFailed(r) \/ r.code # "0"
YfFailed(r) == r.kind = "error" \/ Len(r.rows) = 0

StrictlyDescending(items) ==
    \A i \in 1..(Len(items) - 1) : items[i].date > items[i+1].date

\* C1: when every source of the market's chain failed, the resolver returns
\* no series together with the label that marks a failure, never the label
\* of one of the sources.
C1_AllFailedGivesFailedLabel ==
    /\ (pc # "crashed" /\ LastTask = 1 /\ HttpFailed(resp.cnn) /\ YfFailed(resp.yf))
          => (raw_data.isNone /\ source_name \notin SourceLabels)
    /\ (pc # "crashed" /\ LastTask = 2 /\ CoinGlassFailed(resp.cg))
          => (raw_data.isNone /\ source_name \notin SourceLabels)
    /\ (pc # "crashed" /\ LastTask = 3 /\ YfFailed(resp.yf))
          => (raw_data.isNone /\ source_name \notin SourceLabels)

\* C2: a source that answers with an empty series counts as failed: after
\* get_us_data, a CNN reply with zero data points means the fallback was
\* tried, and a series returned under a source's label is never empty.
C2_EmptySeriesIsFailure ==
    (pc # "crashed" /\ LastTask = 1 /\ ~HttpFailed(resp.cnn) /\ Len(resp.cnn.data) = 0)
        => (resp.yf # Unused /\ source_name # LABEL_CNN)

\* C3: send_push is called exactly once in a run when at least one market
\* produced statistics and never when all failed; the run never crashes,
\* can always take its next step until it is done, and no run calls
\* send_push twice.
C3_OneDeliveryAtMost ==
    /\ pc # "crashed"
    /\ Len(pushes) <= 1
    /\ pc # "done" => (Len(pushes) = 0 /\ ENABLED Next)
    /\ pc = "done" =>
          Len(pushes) = IF \E i \in 1..Len(outcomes) : ~outcomes[i].isNone THEN 1 ELSE 0

\* a finished run that delivered although a market had failed
C3_Witness ==
    /\ pc = "done"
    /\ Len(pushes) = 1
    /\ \E i \in 1..Len(outcomes) : outcomes[i].isNone

\* C4: after the loop the title holds the fragment <label, currentValue> of
\* each market that produced statistics, in configured order, and none for
\* a failed market; the body holds one card per market, a failure card
\* exactly for the failed ones.
C4_TitleAndCards ==
    pc \in {"deliver", "done"} =>
        LET ok == {i \in 1..Len(tasks) : ~outcomes[i].isNone}
            place(i) == Cardinality({j \in ok : j <= i})
        IN  /\ Len(outcomes) = Len(tasks)
            /\ Len(parts) = Cardinality(ok)
            /\ \A i \in ok : parts[place(i)] = <<tasks[i].name[1], outcomes[i].val>>
            /\ Len(html_cards) = Len(tasks)
            /\ \A i \in 1..Len(tasks) :
                  /\ html_cards[i].name = tasks[i].name
                  /\ (html_cards[i].kind = "failure") <=> outcomes[i].isNone

\* markets 1 and 3 produced statistics, market 2 failed
C4_Witness ==
    /\ pc = "done"
    /\ ~outcomes[1].isNone /\ outcomes[2].isNone /\ ~outcomes[3].isNone
    /\ Len(parts) = 2

\* C5 as claimed: every series a resolver returns has at most 65 points.
C5_AtMost65 ==
    (pc = "resolved" /\ ~raw_data.isNone) => Len(raw_data.items) <= RSI_KEEP

\* C5 as the code has it: a series computed by calculate_rsi_history has at
\* most 65 points, a series of get_crypto_data has the 80 newest records at
\* most, and the CNN branch of get_us_data returns one point per record
\* the provider sent.
C5_BoundsPerSource ==
    (pc = "resolved" /\ ~raw_data.isNone) =>
        /\ source_name \in {LABEL_SP500_RSI, LABEL_CSI300_RSI}
              => Len(raw_data.items) <= RSI_KEEP
        /\ source_name = LABEL_COINGLASS
              => Len(raw_data.items) = Min(Len(resp.cg.data), CRYPTO_KEEP)
        /\ source_name = LABEL_CNN
              => Len(raw_data.items) = Len(resp.cnn.data)

\* CoinGlass sent more than 80 records and 80 were kept; CNN's and the
\* RSI's series are covered by the states of the other resolvers
C5_Witness ==
    /\ pc = "resolved"
    /\ source_name = LABEL_COINGLASS
    /\ Len(resp.cg.data) > CRYPTO_KEEP
    /\ Len(raw_data.items) = CRYPTO_KEEP

\* C6: every series a resolver returns is strictly descending by date, with
\* no two points on one date.
C6_StrictlyDescendingDates ==
    (pc = "resolved" /\ ~raw_data.isNone) => StrictlyDescending(raw_data.items)

\* C7: low_w is the number of points among the first min(w, len) with value
\* strictly below the low threshold, high_w the number strictly above the
\* high threshold, for w = 30 and 60; calc_stats of an empty or absent
\* series is None.
C7_WindowCounts ==
    pc = "summarised" =>
        IF raw_data.isNone \/ Len(raw_data.items) = 0
        THEN stats.isNone
        ELSE LET items == raw_data.items
                 below(w) == Cardinality({i \in 1..Len(items) :
                                 i <= w /\ items[i].value <= LIMIT_LOW - 1})
                 above(w) == Cardinality({i \in 1..Len(items) :
                                 i <= w /\ items[i].value >= LIMIT_HIGH + 1})
             IN  /\ ~stats.isNone
                 /\ stats.l30 = below(30) /\ stats.h30 = above(30)
                 /\ stats.l60 = below(60) /\ stats.h60 = above(60)

\* a series longer than 60 with a panic value right after the 30-window, a
\* greed value right after the 60-window and a value on a threshold inside
C7_Witness ==
    /\ pc = "summarised"
    /\ ~raw_data.isNone
    /\ Len(raw_data.items) > 60
    /\ raw_data.items[31].value < LIMIT_LOW
    /\ raw_data.items[61].value > LIMIT_HIGH
    /\ raw_data.items[1].value = LIMIT_LOW
    /\ stats.l30 > 0 /\ stats.h60 > stats.h30

\* C8: the classification depends on series[0] alone: Panic up to 24,
\* Greed from 76, Neutral from 25 to 75.
C8_Classification ==
    (pc = "summarised" /\ ~stats.isNone) =>
        LET v == raw_data.items[1].value
        IN  /\ stats.val = v
            /\ stats.status = IF v <= 24 THEN "Panic"
                              ELSE IF v >= 76 THEN "Greed" ELSE "Neutral"

\* the newest value is exactly 25, older values are in the other classes
C8_Witness ==
    /\ pc = "summarised"
    /\ ~stats.isNone
    /\ raw_data.items[1].value = 25
    /\ stats.status = "Neutral"
    /\ \E i \in 2..Len(raw_data.items) : raw_data.items[i].value = 24
    /\ \E i \in 2..Len(raw_data.items) : raw_data.items[i].value = 76

\* the 14 deltas ending at row i hold no loss
NoLossWindow(rows, i) ==
    \A j \in (i - RSI_PERIOD + 1)..i : rows[j].close >= rows[j-1].close

\* C9: for every date (among the 65 newest) whose window of 14 deltas has
\* average loss 0, calculate_rsi_history returns a point of that date with
\* value 100, and no point for any of the first 14 rows.
C9_SaturatesAt100 ==
    (pc = "resolved" /\ task = 3 /\ resp.yf.kind = "frame" /\ Len(resp.yf.rows) > 0) =>
        LET rows == resp.yf.rows
        IN  /\ ~raw_data.isNone
            /\ \A i \in 1..Len(rows) :
                  (i > RSI_PERIOD /\ i > Len(rows) - RSI_KEEP /\ NoLossWindow(rows, i))
                     => \E p \in 1..Len(raw_data.items) :
                           /\ raw_data.items[p].date = rows[i].date
                           /\ raw_data.items[p].value = 100
            /\ \A i \in 1..Min(RSI_PERIOD, Len(rows)) :
                  \A p \in 1..Len(raw_data.items) : raw_data.items[p].date # rows[i].date

\* C10: for a series of at least 60 points, low30 <= low60 and
\* high30 <= high60.
C10_WindowsMonotonic ==
    (pc = "summarised" /\ ~stats.isNone /\ Len(raw_data.items) >= 60) =>
        /\ stats.l30 <= stats.l60
        /\ stats.h30 <= stats.h60

\* both counts grow from the 30-window to the 60-window
C10_Witness ==
    /\ pc = "summarised"
    /\ ~stats.isNone
    /\ Len(raw_data.items) >= 60
    /\ stats.l30 < stats.l60
    /\ stats.h30 < stats.h60

====
